---- MODULE Spec2Model ----
(***************************************************************************)
(* Model of the images pipeline of scrapy/contrib/pipeline/images.py:      *)
(* the two image stores (FSImagesStore, S3ImagesStore), the freshness test *)
(* of ImagesPipeline.media_to_download, the download handlers              *)
(* media_downloaded / media_failed, and the image processing of            *)
(* image_downloaded / get_images / convert_image.                          *)
(*                                                                         *)
(* The base class scrapy.contrib.pipeline.media.MediaPipeline, which owns  *)
(* the per-request workflow and the table of requests in flight, is not    *)
(* part of the sources at hand; its behaviour (EnterFetch, Decide and      *)
(* Complete) follows the design document, sections 3, 4.5 and 5.           *)
(***************************************************************************)
EXTENDS Integers, Sequences, FiniteSets, TLC

(***************************************************************************)
(* Bounds of the model.                                                    *)
(***************************************************************************)
NumRefs == 2        \* resource references (requests) handed to the pipeline
MaxFaults == 1      \* answers of the outside world, per run, that are not the usual one
MaxCalls == 2       \* calls of the fingerprint functions in one history
MaxRuns == 2        \* runs (open, then close) of one spider

(***************************************************************************)
(* Program constants.                                                      *)
(***************************************************************************)
EXPIRES == 90       \* settings.getint('IMAGES_EXPIRES', 90)

Refs == 1..NumRefs
UrlSeq == <<"u1", "u2">>
URLS == {UrlSeq[i] : i \in 1..Len(UrlSeq)}
ThumbIds == {"small", "big"}
DAY == 60 * 60 * 24
Now0 == 20000 * DAY

\* IMAGES_THUMBS: thumb_id -> (max width, max height)
ThumbSize(t) == IF t = "small" THEN <<2, 2>> ELSE <<4, 4>>

\* The deployments explored: the store class that IMAGES_STORE selects and the
\* settings the pipeline class reads, MIN_WIDTH, MIN_HEIGHT and THUMBS (in the
\* iteration order of the THUMBS dictionary), and the store's setting
\* IMAGES_S3STORE_SPIDER.  The first of each store is the default
\* configuration.
Deployments ==
    { [kind |-> "fs", cfg |-> [MIN_WIDTH |-> 0, MIN_HEIGHT |-> 0, THUMBS |-> << >>,
                               IMAGES_S3STORE_SPIDER |-> FALSE]],
      [kind |-> "fs", cfg |-> [MIN_WIDTH |-> 2, MIN_HEIGHT |-> 2, THUMBS |-> <<"big", "small">>,
                               IMAGES_S3STORE_SPIDER |-> FALSE]],
      [kind |-> "s3", cfg |-> [MIN_WIDTH |-> 0, MIN_HEIGHT |-> 0, THUMBS |-> << >>,
                               IMAGES_S3STORE_SPIDER |-> FALSE]],
      [kind |-> "s3", cfg |-> [MIN_WIDTH |-> 2, MIN_HEIGHT |-> 2, THUMBS |-> <<"small">>,
                               IMAGES_S3STORE_SPIDER |-> TRUE]] }

(***************************************************************************)
(* Keys, bytes, checksums.                                                 *)
(***************************************************************************)
\* the digest of another hash function
Sha256Hex(u) == <<"sha256", u>>

\* hashlib.sha1(url).hexdigest(): an injective tag of the url
Sha1Hex(u) == <<"sha1", u>>

\* the number of hexadecimal characters of a digest: hexdigest() of a sha1
\* object is 40 characters long, of a sha256 object 64
HexLength(digest) == IF digest[1] = "sha1" THEN 40 ELSE 64

image_key(u) == [role |-> "full", thumb |-> "", guid |-> Sha1Hex(u)]

thumb_key(u, t) == [role |-> "thumbs", thumb |-> t, guid |-> Sha1Hex(u)]

NoKey == [role |-> "", thumb |-> "", guid |-> Sha1Hex("")]

\* the text of a key, split at its slashes as _get_filesystem_path splits it:
\* 'full/%s.jpg' and 'thumbs/%s/%s.jpg'
KeyPath(key) ==
    IF key.role = "full"
    THEN <<"full", [stem |-> key.guid, ext |-> "jpg"]>>
    ELSE <<"thumbs", key.thumb, [stem |-> key.guid, ext |-> "jpg"]>>

Keys == {image_key(u) : u \in URLS} \cup {thumb_key(u, t) : u \in URLS, t \in ThumbIds}

NoBytes == [fmt |-> "", w |-> 0, h |-> 0, pix |-> ""]

\* what a save that broke off leaves in the file it had opened for writing
PartialBytes == [fmt |-> "JPEG", w |-> 0, h |-> 0, pix |-> "partial"]

\* md5sum(file): an injective tag of the bytes
md5sum(b) == [md5 |-> b]

NoSum == md5sum(NoBytes)

NoObj == [present |-> FALSE, bytes |-> NoBytes, mtime |-> 0]

Obj(b, t) == [present |-> TRUE, bytes |-> b, mtime |-> t]

(***************************************************************************)
(* Images and response bodies.                                             *)
(***************************************************************************)
Img(w, h, mode, enc, pix) ==
    [kind |-> "img", w |-> w, h |-> h, mode |-> mode, enc |-> enc, pix |-> pix]

EmptyBody == [kind |-> "empty", w |-> 0, h |-> 0, mode |-> "", enc |-> "", pix |-> ""]

JunkBody == [kind |-> "junk", w |-> 0, h |-> 0, mode |-> "", enc |-> "", pix |-> ""]

Bodies ==
    { EmptyBody, JunkBody,
      Img(3, 3, "P", "ok", "new"),
      Img(1, 3, "RGB", "ok", "new"), Img(3, 1, "RGB", "ok", "new"),
      Img(3, 3, "RGB", "bad", "new") }

\* image.save(..., 'JPEG'): the encoded bytes of an image
EncodeJPEG(image) == [fmt |-> "JPEG", w |-> image.w, h |-> image.h, pix |-> image.pix]

Max(a, b) == IF a > b THEN a ELSE b

\* Image.thumbnail(size): shrink, keeping the aspect ratio, never enlarge
Thumbnail(image, size) ==
    LET x0 == image.w
        y0 == image.h
        y1 == IF x0 > size[1] THEN Max((y0 * size[1]) \div x0, 1) ELSE y0
        x1 == IF x0 > size[1] THEN size[1] ELSE x0
        x2 == IF y1 > size[2] THEN Max((x1 * size[2]) \div y1, 1) ELSE x1
        y2 == IF y1 > size[2] THEN size[2] ELSE y1
    IN  [image EXCEPT !.w = x2, !.h = y2]

NoSize == <<0, 0>>

\* ImagesPipeline.convert_image(image, size): (image, buf) or ImageException
convert_image(image, size) ==
    LET rgb == [image EXCEPT !.mode = "RGB"]
        im == IF size # NoSize THEN Thumbnail(rgb, size) ELSE rgb
    IN  IF im.enc = "bad"
        THEN [ok |-> FALSE, err |-> "encode-error", key |-> NoKey, image |-> im, buf |-> NoBytes]
        ELSE [ok |-> TRUE, err |-> "", key |-> NoKey, image |-> im, buf |-> EncodeJPEG(im)]

(***************************************************************************)
(* Results of the pipeline's handlers.                                     *)
(***************************************************************************)
\* Python's None, as the result of media_to_download ("force download")
None == [kind |-> "none", url |-> "", path |-> NoKey, checksum |-> NoSum, why |-> ""]

\* the record with a status next to url, path and checksum
Record_status(u, k, sum) ==
    [kind |-> "record", url |-> u, path |-> k, checksum |-> sum, why |-> "", status |-> "new"]

\* {'url': ..., 'path': ..., 'checksum': ...}
Record(u, k, sum) == [kind |-> "record", url |-> u, path |-> k, checksum |-> sum, why |-> ""]

\* raise ImageException; why names what went wrong
ImageException(why) ==
    [kind |-> "failure", url |-> "", path |-> NoKey, checksum |-> NoSum, why |-> why]

\* an exception of another class leaving a handler
OtherException(why) ==
    [kind |-> "error", url |-> "", path |-> NoKey, checksum |-> NoSum, why |-> why]

\* the class of what get_images, convert_image and persist_image raise:
\* ImageException for an image too small and for a failed encoding; Image.open
\* and the stores raise exceptions of other classes
IsImageException(err) == err \in {"too-small", "encode-error"}

\* a line of the log: log.msg(..., level=...) and log.err()
LogLine(level, line) == [level |-> level, line |-> line]

\* an item of the get_images generator: a yielded (key, image, buf), or the
\* exception the generator raises instead of yielding
Raise(err) == [ok |-> FALSE, err |-> err, key |-> NoKey, image |-> JunkBody, buf |-> NoBytes]

RECURSIVE ThumbItems(_, _, _, _)
\* the loop over THUMBS of get_images, from its i-th entry on
ThumbItems(image, u, thumbs, i) ==
    IF i > Len(thumbs) THEN << >>
    ELSE LET c == convert_image(image, ThumbSize(thumbs[i]))
         IN  IF ~c.ok THEN <<c>>
             ELSE <<[c EXCEPT !.key = thumb_key(u, thumbs[i])]>>
                      \o ThumbItems(image, u, thumbs, i + 1)

\* get_images yielding the full image a second time
get_images_twice(body, u, cfg) ==
    IF body.kind # "img" THEN <<Raise("decode-error")>>
    ELSE IF body.w < cfg.MIN_WIDTH \/ body.h < cfg.MIN_HEIGHT THEN <<Raise("too-small")>>
    ELSE IF ~convert_image(body, NoSize).ok THEN <<convert_image(body, NoSize)>>
    ELSE <<[convert_image(body, NoSize) EXCEPT !.key = image_key(u)],
           [convert_image(body, NoSize) EXCEPT !.key = image_key(u)]>>
             \o ThumbItems(convert_image(body, NoSize).image, u, cfg.THUMBS, 1)

\* get_images rejecting only what is too narrow and too short at once
get_images_and(body, u, cfg) ==
    IF body.kind # "img" THEN <<Raise("decode-error")>>
    ELSE IF body.w < cfg.MIN_WIDTH /\ body.h < cfg.MIN_HEIGHT THEN <<Raise("too-small")>>
    ELSE IF ~convert_image(body, NoSize).ok THEN <<convert_image(body, NoSize)>>
    ELSE <<[convert_image(body, NoSize) EXCEPT !.key = image_key(u)]>>
             \o ThumbItems(convert_image(body, NoSize).image, u, cfg.THUMBS, 1)

\* get_images yielding the full image under a key that is not image_key(url)
get_images_otherkey(body, u, cfg) ==
    IF body.kind # "img" THEN <<Raise("decode-error")>>
    ELSE IF body.w < cfg.MIN_WIDTH \/ body.h < cfg.MIN_HEIGHT THEN <<Raise("too-small")>>
    ELSE IF ~convert_image(body, NoSize).ok THEN <<convert_image(body, NoSize)>>
    ELSE <<[convert_image(body, NoSize) EXCEPT !.key = thumb_key(u, "small")]>>
             \o ThumbItems(convert_image(body, NoSize).image, u, cfg.THUMBS, 1)

\* ImagesPipeline.get_images: what the generator yields, in order, up to and
\* including the exception that ends it (if any)
get_images(body, u, cfg) ==
    IF body.kind # "img" THEN <<Raise("decode-error")>>
    ELSE IF body.w < cfg.MIN_WIDTH \/ body.h < cfg.MIN_HEIGHT THEN <<Raise("too-small")>>
    ELSE LET c == convert_image(body, NoSize)
         IN  IF ~c.ok THEN <<c>>
             ELSE <<[c EXCEPT !.key = image_key(u)]>> \o ThumbItems(c.image, u, cfg.THUMBS, 1)

(***************************************************************************)
(* The stores.  A store call works on sc = [store, puts]: the objects held *)
(* and, for S3, the PUT requests handed to the engine and not yet answered.*)
(***************************************************************************)
\* how a filesystem write can break: in _mkdir (nothing written) or in
\* image.save (the file was opened for writing and is left incomplete)
FsFaults == {"mkdir", "save"}

\* persist_image whose broken save damages every file of the directory
FSImagesStore_persist_image_clobber(st, key, image, now, fault) ==
    IF fault = "mkdir" THEN [ok |-> FALSE, store |-> st]
    ELSE IF fault = "save"
    THEN [ok |-> FALSE,
          store |-> [k \in DOMAIN st |->
                        IF k.role = key.role THEN Obj(PartialBytes, now) ELSE st[k]]]
    ELSE [ok |-> TRUE, store |-> [st EXCEPT ![key] = Obj(EncodeJPEG(image), now)]]

\* persist_image saving the image in another format than the buffer's
FSImagesStore_persist_image_png(st, key, image, now, fault) ==
    IF fault = "mkdir" THEN [ok |-> FALSE, store |-> st]
    ELSE IF fault = "save"
    THEN [ok |-> FALSE, store |-> [st EXCEPT ![key] = Obj(PartialBytes, now)]]
    ELSE [ok |-> TRUE,
          store |-> [st EXCEPT ![key] = Obj([EncodeJPEG(image) EXCEPT !.fmt = "PNG"], now)]]

\* FSImagesStore.persist_image; returns [ok, store]
FSImagesStore_persist_image(st, key, image, now, fault) ==
    IF fault = "mkdir" THEN [ok |-> FALSE, store |-> st]
    ELSE IF fault = "save"
    THEN [ok |-> FALSE, store |-> [st EXCEPT ![key] = Obj(PartialBytes, now)]]
    ELSE [ok |-> TRUE, store |-> [st EXCEPT ![key] = Obj(EncodeJPEG(image), now)]]

\* S3ImagesStore.persist_image: builds the PUT request and hands it to the
\* engine; the returned deferred is the request in flight
S3ImagesStore_persist_image(puts, key, image, buf, by) ==
    puts \cup {[key |-> key, body |-> buf, width |-> image.w, height |-> image.h, by |-> by]}

\* FSImagesStore.stat_image; ioerr: open() of the file raises
FSImagesStore_stat_image(st, key, ioerr) ==
    IF ~st[key].present
    THEN [fail |-> FALSE, some |-> FALSE, last_modified |-> 0, checksum |-> NoSum]
    ELSE IF ioerr
    THEN [fail |-> TRUE, some |-> FALSE, last_modified |-> 0, checksum |-> NoSum]
    ELSE [fail |-> FALSE, some |-> TRUE, last_modified |-> st[key].mtime,
          checksum |-> md5sum(st[key].bytes)]

\* the Etag header of an object: its md5 between double quotes
Quoted(sum) == [quoted |-> sum]

\* the answers S3 can give to a HEAD: the object's metadata (Etag, and
\* Last-Modified, an RFC 822 date, which has whole seconds), no such object,
\* a refusal, a 200 whose headers are missing or unreadable, a broken round
\* trip
HeadAnswers(st, key) ==
    (IF st[key].present
     THEN {[status |-> 200, hdrs |-> "ok", etag |-> Quoted(md5sum(st[key].bytes)),
            last_modified |-> st[key].mtime, broken |-> FALSE],
           [status |-> 200, hdrs |-> "bad", etag |-> Quoted(NoSum), last_modified |-> 0,
            broken |-> FALSE]}
     ELSE {[status |-> 404, hdrs |-> "ok", etag |-> Quoted(NoSum), last_modified |-> 0,
            broken |-> FALSE]})
    \cup {[status |-> 403, hdrs |-> "ok", etag |-> Quoted(NoSum), last_modified |-> 0,
           broken |-> FALSE],
          [status |-> 0, hdrs |-> "ok", etag |-> Quoted(NoSum), last_modified |-> 0,
           broken |-> TRUE]}

\* S3ImagesStore.stat_image: the deferred's result once the HEAD is answered:
\* the Etag without its quotes and the Last-Modified date as seconds since the
\* epoch; a missing or unreadable header raises, any other status gives None
S3ImagesStore_stat_image(resp) ==
    IF resp.broken
    THEN [fail |-> TRUE, some |-> FALSE, last_modified |-> 0, checksum |-> NoSum]
    ELSE IF resp.status = 200
    THEN IF resp.hdrs = "ok"
         THEN [fail |-> FALSE, some |-> TRUE, last_modified |-> resp.last_modified,
               checksum |-> resp.etag.quoted]
         ELSE [fail |-> TRUE, some |-> FALSE, last_modified |-> 0, checksum |-> NoSum]
    ELSE [fail |-> FALSE, some |-> FALSE, last_modified |-> 0, checksum |-> NoSum]

(***************************************************************************)
(* ImagesPipeline.media_to_download.                                       *)
(***************************************************************************)
\* the age test with >= for >
AgeExpired_ge(age_seconds) == age_seconds >= EXPIRES * 60 * 60 * 24

\* the age test on whole days, fractions dropped
AgeExpired_floor(age_seconds) == (age_seconds \div (60 * 60 * 24)) > EXPIRES

\* age_days = age_seconds / 60 / 60 / 24 ; age_days > EXPIRES.  time.time()
\* is a float, so the division is exact: no rounding to whole days.
AgeExpired(age_seconds) == age_seconds > EXPIRES * 60 * 60 * 24

\* _onsuccess reporting the up-to-date image without the stat's checksum
Onsuccess_nosum(result, now, u) ==
    IF ~result.some THEN None
    ELSE IF result.last_modified = 0 THEN None
    ELSE IF AgeExpired(now - result.last_modified) THEN None
    ELSE Record(u, image_key(u), NoSum)

\* _onsuccess of media_to_download
Onsuccess(result, now, u) ==
    IF ~result.some THEN None
    ELSE IF result.last_modified = 0 THEN None
    ELSE IF AgeExpired(now - result.last_modified) THEN None
    ELSE Record(u, image_key(u), result.checksum)

\* media_to_download without the errback that turns a failed stat into None
media_to_download_noerrback(stat, now, u) ==
    IF stat.fail THEN ImageException("stat-error") ELSE Onsuccess(stat, now, u)

\* dfd.addCallbacks(_onsuccess, lambda _: None)
media_to_download(stat, now, u) ==
    IF stat.fail THEN None ELSE Onsuccess(stat, now, u)

(***************************************************************************)
(* ImagesPipeline.image_downloaded, media_downloaded, media_failed.        *)
(***************************************************************************)
NoFault == [at |-> 0, how |-> ""]

\* store.persist_image(key, image, buf, info) on the state acc of the loop
Persist(it, i, acc, kind, now, fault, by) ==
    IF kind = "fs"
    THEN FSImagesStore_persist_image(acc.store, it.key, it.image, now,
                                     IF fault.at = i THEN fault.how ELSE "")
    ELSE [ok |-> TRUE, store |-> acc.store]

\* the loop going on after a persist_image that raised
Persisted_swallow(it, acc, w, kind, by) ==
    [store |-> w.store,
     puts |-> IF kind = "s3"
              THEN S3ImagesStore_persist_image(acc.puts, it.key, it.image, it.buf, by)
              ELSE acc.puts,
     persisted |-> Append(acc.persisted, it.key),
     err |-> "",
     pfailed |-> acc.pfailed \/ ~w.ok,
     first_buf |-> IF acc.persisted = << >> THEN it.buf ELSE acc.first_buf]

\* the loop keeping the buffer of the last artifact instead of the first
Persisted_last(it, acc, w, kind, by) ==
    [store |-> w.store,
     puts |-> IF kind = "s3"
              THEN S3ImagesStore_persist_image(acc.puts, it.key, it.image, it.buf, by)
              ELSE acc.puts,
     persisted |-> Append(acc.persisted, it.key),
     err |-> IF w.ok THEN "" ELSE "persist-error",
     pfailed |-> acc.pfailed \/ ~w.ok,
     first_buf |-> IF w.ok THEN it.buf ELSE acc.first_buf]

\* the loop's state after the call w of persist_image for item it: the store
\* as the call left it, the PUT it issued, first_buf
Persisted(it, acc, w, kind, by) ==
    [store |-> w.store,
     puts |-> IF kind = "s3"
              THEN S3ImagesStore_persist_image(acc.puts, it.key, it.image, it.buf, by)
              ELSE acc.puts,
     persisted |-> Append(acc.persisted, it.key),
     err |-> IF w.ok THEN "" ELSE "persist-error",
     pfailed |-> acc.pfailed \/ ~w.ok,
     first_buf |-> IF acc.persisted = << >> /\ w.ok THEN it.buf ELSE acc.first_buf]

RECURSIVE PersistLoop(_, _, _, _, _, _, _)
\* the for loop of image_downloaded from the i-th item of the generator on;
\* acc = [store, puts, persisted, err, pfailed, first_buf]; an exception
\* (of the generator or of persist_image) ends it
PersistLoop(items, i, acc, kind, now, fault, by) ==
    IF i > Len(items) \/ acc.err # "" THEN acc
    ELSE IF ~items[i].ok THEN [acc EXCEPT !.err = items[i].err]
    ELSE PersistLoop(items, i + 1,
                     Persisted(items[i], acc, Persist(items[i], i, acc, kind, now, fault, by),
                               kind, by),
                     kind, now, fault, by)

\* the end of image_downloaded: first_buf.seek(0); return md5sum(first_buf)
ImageChecksum(r) ==
    [err |-> r.err, store |-> r.store, puts |-> r.puts, persisted |-> r.persisted,
     pfailed |-> r.pfailed,
     checksum |-> IF r.err = "" THEN md5sum(r.first_buf) ELSE NoSum]

\* ImagesPipeline.image_downloaded: [err, checksum, store, puts, persisted, pfailed]
image_downloaded(body, u, cfg, kind, sc, now, fault, by) ==
    ImageChecksum(PersistLoop(get_images(body, u, cfg), 1,
                      [store |-> sc.store, puts |-> sc.puts, persisted |-> << >>, err |-> "",
                       pfailed |-> FALSE, first_buf |-> NoBytes], kind, now, fault, by))

\* the log lines of media_downloaded once the response passed its tests: the
\* DEBUG line, then the WARNING of the except ImageException clause or the
\* log.err of the except Exception clause
ImageLog(err) ==
    <<LogLine("DEBUG", "downloaded")>>
        \o (IF err = "" THEN << >>
            ELSE IF IsImageException(err) THEN <<LogLine("WARNING", err)>>
            ELSE <<LogLine("ERROR", err)>>)

\* the try statement without its except Exception clause
ImageResult_reraise(u, d) ==
    [out |-> IF d.err = "" THEN Record(u, image_key(u), d.checksum)
             ELSE IF IsImageException(d.err) THEN ImageException(d.err)
             ELSE OtherException(d.err),
     store |-> d.store, puts |-> d.puts, nproc |-> 1, persisted |-> d.persisted,
     pfailed |-> d.pfailed, log |-> ImageLog(d.err)]

\* the try statement of media_downloaded around image_downloaded's run d: the
\* record, or ImageException for whatever was raised
ImageResult(u, d) ==
    [out |-> IF d.err = "" THEN Record(u, image_key(u), d.checksum) ELSE ImageException(d.err),
     store |-> d.store, puts |-> d.puts, nproc |-> 1, persisted |-> d.persisted,
     pfailed |-> d.pfailed, log |-> ImageLog(d.err)]

\* media_downloaded raising before any processing, after its WARNING line
Rejected(why, sc) ==
    [out |-> ImageException(why), store |-> sc.store, puts |-> sc.puts, nproc |-> 0,
     persisted |-> << >>, pfailed |-> FALSE, log |-> <<LogLine("WARNING", why)>>]

\* media_downloaded without the test of the body
media_downloaded_nobody(response, u, cfg, kind, sc, now, fault, by) ==
    IF response.status # 200 THEN Rejected("http-error", sc)
    ELSE ImageResult(u, image_downloaded(response.body, u, cfg, kind, sc, now, fault, by))

\* ImagesPipeline.media_downloaded:
\* [out, store, puts, nproc, persisted, pfailed, log]
media_downloaded(response, u, cfg, kind, sc, now, fault, by) ==
    IF response.status # 200 THEN Rejected("http-error", sc)
    ELSE IF response.body.kind = "empty" THEN Rejected("empty-content", sc)
    ELSE ImageResult(u, image_downloaded(response.body, u, cfg, kind, sc, now, fault, by))

\* ImagesPipeline.media_failed: logs unless the request was ignored, raises
media_failed(failure) ==
    ImageException(IF failure = "IgnoreRequest" THEN "ignored" ELSE "unknown-error")

\* media_failed writing no log line at all
media_failed_silent(failure) == << >>

\* the log lines of media_failed: none for an IgnoreRequest failure
media_failed_log(failure) ==
    IF failure = "IgnoreRequest" THEN << >> ELSE <<LogLine("WARNING", "unknown-error")>>

\* the DEBUG line of media_to_download's _onsuccess when it answers with m
media_to_download_log(m) ==
    IF m.kind = "record" THEN <<LogLine("DEBUG", "uptodate")>> ELSE << >>

(***************************************************************************)
(* The directories of the filesystem store and the memo of those created.  *)
(***************************************************************************)
Spiders == {"a.com", "b.com"}

\* the info object the pipeline passes to the store for the n-th run of the
\* spider named s: an object with the attribute spider
Info(s, n) == <<"info", s, n>>

\* spider.name, a string, as a key of the memo
Name(s) == <<"str", s, 0>>

\* os.path.dirname of the path of key, below basedir
Dirname(key) == SubSeq(KeyPath(key), 1, Len(KeyPath(key)) - 1)

\* created_directories[domain] of the defaultdict: the set under domain, the
\* empty set when there is none yet
Seen(memo, domain) == IF domain \in DOMAIN memo THEN memo[domain] ELSE {}

\* FSImagesStore._mkdir(dirname, domain) for a domain that is not None: the
\* memo with dirname among the directories seen for domain, the disk with the
\* directory made if it was neither seen nor there
FSImagesStore_mkdir(memo, disk, dirname, domain) ==
    [created_directories |->
         [k \in DOMAIN memo \cup {domain} |->
             IF k = domain THEN Seen(memo, domain) \cup {dirname} ELSE memo[k]],
     disk |-> IF dirname \in Seen(memo, domain) THEN disk ELSE disk \cup {dirname}]

\* FSImagesStore.spider_closed: created_directories.pop(spider.name, None)
FSImagesStore_spider_closed(memo, name) ==
    [k \in DOMAIN memo \ {Name(name)} |-> memo[k]]

(***************************************************************************)
(* The downloader slot of the S3 store's requests.                         *)
(***************************************************************************)
NoSpider == ""

\* info.spider: the spider whose items the pipeline processes
ItemSpider == "example.com"

\* S3ImagesStore._set_custom_spider: the store's s3_spider
S3ImagesStore_set_custom_spider(setting) ==
    IF setting THEN "s3.amazonaws.com" ELSE NoSpider

\* _download_request handing every request to the downloader for info.spider
S3ImagesStore_download_request_direct(s3_spider, method, key, spider) ==
    [method |-> method, key |-> key, how |-> "download", spider |-> spider]

\* S3ImagesStore._download_request: where a HEAD or PUT request of the store
\* goes
S3ImagesStore_download_request(s3_spider, method, key, spider) ==
    IF s3_spider # NoSpider
    THEN [method |-> method, key |-> key, how |-> "schedule", spider |-> s3_spider]
    ELSE [method |-> method, key |-> key, how |-> "download", spider |-> spider]

(***************************************************************************)
(* Request identity.                                                       *)
(***************************************************************************)
\* request_fingerprint of the GET request for url u (no body, no headers
\* included): an injective tag of method, url and body
request_fingerprint(u) == <<"sha1", "GET", u, "">>

FPS == {request_fingerprint(u) : u \in URLS}

(***************************************************************************)
(* Request fingerprints (scrapy/utils/request.py).  A request has a method,*)
(* a url (here: a base, query parameters in the order written, a           *)
(* fragment), a body and headers (name -> list of values, names compared   *)
(* without regard to case).  Strings are strings, so that what the digest  *)
(* is fed is the concatenation the code feeds it.                          *)
(***************************************************************************)
\* query parameters, in sorted order
ParamOrder == <<"p=1", "q=2">>

\* header names as a caller may write them, in the order sorted() gives
NameOrder == <<"A", "B", "a", "b">>

IncludeNames == {NameOrder[i] : i \in 1..Len(NameOrder)}

\* h.lower()
Lower(h) == IF h = "A" THEN "a" ELSE IF h = "B" THEN "b" ELSE h

HeaderNames == {Lower(h) : h \in IncludeNames}

NoHeaders == [h \in HeaderNames |-> << >>]

\* the headers of the requests compared; << >>: the request has no such header
HeaderSets ==
    { NoHeaders,
      [NoHeaders EXCEPT !["a"] = <<"x">>],
      [NoHeaders EXCEPT !["a"] = <<"xb">>],
      [NoHeaders EXCEPT !["a"] = <<"x", "b">>],
      [NoHeaders EXCEPT !["a"] = <<"x">>, !["b"] = <<"">>] }

Requests ==
    [method : {"GET", "POST"},
     url : [base : {"h"}, query : {<<"p=1", "q=2">>, <<"q=2", "p=1">>}, frag : {"", "f"}],
     body : {"", "x"},
     headers : HeaderSets]

RECURSIVE Join(_, _)
\* sep.join(seq)
Join(seq, sep) ==
    IF seq = << >> THEN ""
    ELSE IF Len(seq) = 1 THEN seq[1]
    ELSE seq[1] \o sep \o Join(Tail(seq), sep)

\* the members of seq that are in order, as order has them
SortedBy(order, seq) ==
    SelectSeq(order, LAMBDA x : \E i \in 1..Len(seq) : seq[i] = x)

\* w3lib's canonicalize_url(url, keep_fragments=...): the query parameters
\* sorted, the fragment dropped unless kept
canonicalize_url(u, keep_fragments) ==
    u.base
        \o (IF u.query = << >> THEN "" ELSE "?" \o Join(SortedBy(ParamOrder, u.query), "&"))
        \o (IF keep_fragments /\ u.frag # "" THEN "#" \o u.frag ELSE "")

\* the url of a request after canonicalize_url
UrlText_canonical(u) == canonicalize_url(u, FALSE)

\* request.url: the text of a url as the request has it
UrlText(u) ==
    u.base
        \o (IF u.query = << >> THEN "" ELSE "?" \o Join(u.query, "&"))
        \o (IF u.frag # "" THEN "#" \o u.frag ELSE "")

\* tuple(to_bytes(h.lower()) for h in sorted(include_headers)), or None (here
\* << >>) when include_headers is empty
ProcessedIncludeHeaders(include_headers) ==
    LET sorted == SelectSeq(NameOrder, LAMBDA h : h \in include_headers)
    IN  [i \in 1..Len(sorted) |-> Lower(sorted[i])]

RECURSIVE SerializeHeaders(_, _, _)
\* _serialize_headers: for each header the request carries, its name and its
\* values, one after the other as the digest is fed them
SerializeHeaders(names, request, i) ==
    IF i > Len(names) THEN ""
    ELSE (IF request.headers[names[i]] = << >> THEN ""
          ELSE names[i] \o Join(request.headers[names[i]], ""))
             \o SerializeHeaders(names, request, i + 1)

\* request_fingerprint: sha1 over method, canonical url, body and the
\* serialized headers, fed to the digest one after the other; hexdigest
request_fingerprint_hexdigest(request, include_headers, keep_fragments) ==
    Sha1Hex(request.method
                \o canonicalize_url(request.url, keep_fragments)
                \o request.body
                \o SerializeHeaders(ProcessedIncludeHeaders(include_headers), request, 1))

\* bytes.hex()
Hex(b) == <<"hex", b>>

\* the headers dictionary of fingerprint(): the headers named that the
\* request carries, each with the list of its values
IncludedHeaders(names, request) ==
    [h \in {names[i] : i \in {j \in 1..Len(names) : request.headers[names[j]] # << >>}} |->
        [k \in 1..Len(request.headers[h]) |-> Hex(request.headers[h][k])]]

\* fingerprint: sha1 over json.dumps(fingerprint_data, sort_keys=True); digest
fingerprint(request, include_headers, keep_fragments) ==
    <<"sha1",
      [method |-> request.method,
       url |-> canonicalize_url(request.url, keep_fragments),
       body |-> Hex(request.body),
       headers |-> IncludedHeaders(ProcessedIncludeHeaders(include_headers), request)]>>

\* the functions that fingerprint a request
Functions == {"fingerprint", "request_fingerprint"}

\* the computation of a digest on a cache miss
Computed(fn, request, include_headers, keep_fragments) ==
    IF fn = "fingerprint"
    THEN fingerprint(request, include_headers, keep_fragments)
    ELSE request_fingerprint_hexdigest(request, include_headers, keep_fragments)

\* a cache key that leaves keep_fragments out
CacheKey_headers(include_headers, keep_fragments) ==
    <<ProcessedIncludeHeaders(include_headers), FALSE>>

\* cache_key = (processed_include_headers, keep_fragments)
CacheKey(include_headers, keep_fragments) ==
    <<ProcessedIncludeHeaders(include_headers), keep_fragments>>

\* the entries under key of the dictionary that a cache holds for a request
Cached(entries, key) == {e \in entries : e.key = key}

\* return cache[cache_key], after the computation when the key was not there
Returned(entries, key, fn, request, include_headers, keep_fragments) ==
    IF Cached(entries, key) # {}
    THEN (CHOOSE e \in Cached(entries, key) : TRUE).value
    ELSE Computed(fn, request, include_headers, keep_fragments)

\* the dictionary of a request after the call
Stored(entries, key, fn, request, include_headers, keep_fragments) ==
    IF Cached(entries, key) # {} THEN entries
    ELSE entries \cup {[key |-> key,
                        value |-> Computed(fn, request, include_headers, keep_fragments)]}

\* the request objects of a history of calls
Objects == {"a", "b"}

\* RequestFingerprinter() made without a crawler
NoCrawler == ""

\* RequestFingerprinter.__init__: the implementation, '2.6' without a crawler,
\* the crawler's setting REQUEST_FINGERPRINTER_IMPLEMENTATION with one
RequestFingerprinter_init(crawler) == IF crawler = NoCrawler THEN "2.6" ELSE crawler

\* bytes.fromhex(text): the bytes that the hexadecimal text writes
FromHex(text) == IF text[1] = "hex" THEN text[2] ELSE <<"bytes", text>>

\* the function behind self._fingerprint
FingerprintFunction(implementation) ==
    IF implementation = "2.6" THEN "request_fingerprint" ELSE "fingerprint"

\* RequestFingerprinter.fingerprint(request), entries being what the cache
\* of the function holds for the request: _request_fingerprint_as_bytes for
\* '2.6', fingerprint for '2.7', both with the default options
RequestFingerprinter_fingerprint(implementation, entries, request) ==
    IF implementation = "2.6"
    THEN FromHex(Returned(entries, CacheKey({}, FALSE), "request_fingerprint", request,
                          {}, FALSE))
    ELSE Returned(entries, CacheKey({}, FALSE), "fingerprint", request, {}, FALSE)

\* the requests handed to a RequestFingerprinter: urls with one or two query
\* parameters, bodies that are empty or read like the end of a url
FingerprinterRequests ==
    [method : {"GET", "POST"},
     url : [base : {"h"},
            query : {<<"p=1">>, <<"p=1", "q=2">>, <<"q=2", "p=1">>},
            frag : {"", "f"}],
     body : {"", "&q=2", "x"},
     headers : {NoHeaders, [NoHeaders EXCEPT !["a"] = <<"x">>]}]

\* the requests such a history is about: one with a fragment and the headers
\* a and b, one whose header a has another value and that has no header b
CallRequests ==
    {q \in Requests :
        /\ q.method = "GET" /\ q.body = ""
        /\ q.url.frag = "f" /\ q.url.query = ParamOrder
        /\ q.headers \in {[NoHeaders EXCEPT !["a"] = <<"x">>, !["b"] = <<"">>],
                          [NoHeaders EXCEPT !["a"] = <<"xb">>]}}

\* the include_headers arguments of such a history
IncludeChoices == {{}, {"a"}, {"A"}, {"B", "a"}, {"A", "b"}}

(***************************************************************************)
(* State.                                                                  *)
(***************************************************************************)
VARIABLES
    cfg,        \* the settings read by ImagesPipeline
    kind,       \* which store class STORE_SCHEMES selected: "fs" or "s3"
    now,        \* time.time(), in seconds
    faults,     \* unusual answers of the outside world so far
    url,        \* url[r]: the url of resource reference r
    pc,         \* pc[r]: where reference r is in its workflow
    store,      \* store[key]: the object the backing store holds under key
    puts,       \* S3 PUT requests in flight
    dedup,      \* the table of requests in flight, by fingerprint
    result,     \* result[r]: what reference r's workflow delivered
    statSeen,   \* statSeen[r]: the stat result media_to_download saw, and when
    resp,       \* resp[r]: the response media_downloaded was called with
    nFetch,     \* nFetch[r]: downloads issued on behalf of r
    nProc,      \* nProc[r]: calls of get_images on behalf of r
    persisted,  \* persisted[r]: keys passed to store.persist_image, in order
    pfailed,    \* pfailed[r]: a persist_image call of r raised
    putFailed,  \* putFailed[r]: a PUT issued for r failed
    owner,      \* owner[r]: the reference whose download serves r (0: none)
    nForward,   \* nForward[i]: times item i was handed on (forwarded or dropped)
    log,        \* log[r]: the log lines the handlers of r's requests wrote
    sent,       \* sent[r]: the store's requests for r and where they were handed in
    fpc,        \* the requests of a fingerprint comparison and its digests
    cache,      \* cache[fn][o]: the dictionary the cache of fn holds for request o
    calls,      \* the calls of the fingerprint functions so far, with what they returned
    created_directories,    \* FSImagesStore.created_directories
    spiders,    \* spiders[s]: whether the spider is open, and its runs so far
    disk,       \* the directories that exist below basedir
    fingerprinter   \* the implementation that the RequestFingerprinter object took

vars == <<cfg, kind, now, faults, url, pc, store, puts, dedup, result, statSeen, resp,
          nFetch, nProc, persisted, pfailed, putFailed, owner, nForward, log, sent, fpc,
          cache, calls, created_directories, spiders, disk, fingerprinter>>

\* the state of the pipeline, all but the fingerprint comparison
pipelineVars == <<cfg, kind, now, faults, url, pc, store, puts, dedup, result, statSeen,
                  resp, nFetch, nProc, persisted, pfailed, putFailed, owner, nForward,
                  log, sent>>

\* the caches of the fingerprint functions and the history of their calls
callVars == <<cache, calls>>

\* the directory memo of the filesystem store over the runs of the spiders
dirVars == <<created_directories, spiders, disk>>

\* the variables no step of the pipeline touches
sideVars == <<fpc, callVars, dirVars, fingerprinter>>

\* the item that carries resource reference r: items carry two references
ItemOf(r) == (r + 1) \div 2

Items == {ItemOf(r) : r \in Refs}

\* ages, in seconds, of the objects a previous run left in the store
\* no fingerprint comparison: the pipeline's runs make none
NoComparison == [done |-> FALSE]

AGES == {EXPIRES * DAY, EXPIRES * DAY + 1, (EXPIRES + 1) * DAY}

Absent == 0 - 1

OldImage == Img(3, 3, "RGB", "ok", "old")

\* the store as earlier runs with the same settings left it: for each url
\* nothing, or the image and its thumbnails, ages[u] seconds old
InitStore(c, ages) ==
    [k \in Keys |->
        LET u == CHOOSE v \in URLS : k.guid = Sha1Hex(v)
        IN  IF ages[u] = Absent THEN NoObj
            ELSE IF k.role = "full" THEN Obj(EncodeJPEG(OldImage), Now0 - ages[u])
            ELSE IF \E i \in 1..Len(c.THUMBS) : c.THUMBS[i] = k.thumb
            THEN Obj(convert_image(OldImage, ThumbSize(k.thumb)).buf, Now0 - ages[u])
            ELSE NoObj]

NoStat == [seen |-> FALSE, at |-> 0, key |-> NoKey,
           stat |-> [fail |-> FALSE, some |-> FALSE, last_modified |-> 0, checksum |-> NoSum]]

\* no call of a fingerprint function yet, the caches empty
CallsQuiet ==
    /\ cache = [fn \in Functions |-> [o \in Objects |-> {}]]
    /\ calls = << >>

\* FSImagesStore.__init__: basedir made, the memo empty; no spider open
DirsQuiet ==
    /\ created_directories = << >>
    /\ spiders = [s \in Spiders |-> [open |-> FALSE, run |-> 0]]
    /\ disk = {<< >>}

NoResp == [got |-> FALSE, status |-> 0, body |-> EmptyBody]

Init ==
    /\ \E d \in Deployments : cfg = d.cfg /\ kind = d.kind
    /\ now = Now0
    /\ faults = 0
    /\ \E ix \in [Refs -> 1..Len(UrlSeq)] :
          /\ \A r, q \in Refs : r < q => ix[r] <= ix[q]
          /\ url = [r \in Refs |-> UrlSeq[ix[r]]]
    /\ pc = [r \in Refs |-> "idle"]
    /\ \E a \in AGES \cup {Absent} :
          store = InitStore(cfg, [u \in URLS |-> IF u = UrlSeq[1] THEN a ELSE Absent])
    /\ puts = {}
    /\ dedup = [f \in FPS |-> [inflight |-> FALSE, waiting |-> << >>]]
    /\ result = [r \in Refs |-> None]
    /\ statSeen = [r \in Refs |-> NoStat]
    /\ resp = [r \in Refs |-> NoResp]
    /\ nFetch = [r \in Refs |-> 0]
    /\ nProc = [r \in Refs |-> 0]
    /\ persisted = [r \in Refs |-> << >>]
    /\ pfailed = [r \in Refs |-> FALSE]
    /\ putFailed = [r \in Refs |-> FALSE]
    /\ owner = [r \in Refs |-> 0]
    /\ nForward = [i \in Items |-> 0]
    /\ log = [r \in Refs |-> << >>]
    /\ sent = [r \in Refs |-> {}]
    /\ fpc = NoComparison
    /\ CallsQuiet
    /\ DirsQuiet
    /\ fingerprinter = RequestFingerprinter_init(NoCrawler)

\* the outside world's budget of unusual answers (failed round trips, bad
\* responses, broken writes): the usual answer is always possible, an unusual
\* one only while the budget MaxFaults lasts
Unusual(what) ==
    IF what THEN faults < MaxFaults /\ faults' = faults + 1 ELSE faults' = faults

(***************************************************************************)
(* The workflow of one resource reference (MediaPipeline).                 *)
(***************************************************************************)
\* FETCHING: consult the table; the first entrant registers the operation
\* and issues the download, every later one attaches as a waiter
EnterFetch(r) ==
    LET fp == request_fingerprint(url[r])
    IN  IF dedup[fp].inflight
        THEN /\ dedup' = [dedup EXCEPT ![fp].waiting = Append(@, r)]
             /\ pc' = [pc EXCEPT ![r] = "WAITING"]
             /\ owner' = [owner EXCEPT ![r] = dedup[fp].waiting[1]]
             /\ UNCHANGED nFetch
        ELSE /\ dedup' = [dedup EXCEPT ![fp] = [inflight |-> TRUE, waiting |-> <<r>>]]
             /\ pc' = [pc EXCEPT ![r] = "FETCHING"]
             /\ owner' = [owner EXCEPT ![r] = r]
             /\ nFetch' = [nFetch EXCEPT ![r] = @ + 1]

\* the continuation of media_to_download's deferred, which ended with m: a
\* record ends the workflow (SKIPPED), None goes on to FETCHING, a failure
\* fails the resource
Checked(r, m) ==
    IF m.kind = "record"
    THEN /\ pc' = [pc EXCEPT ![r] = "SKIPPED"]
         /\ result' = [result EXCEPT ![r] = m]
         /\ UNCHANGED <<dedup, nFetch, owner>>
    ELSE IF m.kind = "failure"
    THEN /\ pc' = [pc EXCEPT ![r] = "FAILED"]
         /\ result' = [result EXCEPT ![r] = m]
         /\ UNCHANGED <<dedup, nFetch, owner>>
    ELSE /\ EnterFetch(r)
         /\ UNCHANGED result

\* store.stat_image(key, info) answered stat: media_to_download's callbacks
\* run
Decide(r, key, stat) ==
    /\ statSeen' = [statSeen EXCEPT ![r] = [seen |-> TRUE, at |-> now, key |-> key,
                                            stat |-> stat]]
    /\ log' = [log EXCEPT ![r] = @ \o media_to_download_log(media_to_download(stat, now, url[r]))]
    /\ Checked(r, media_to_download(stat, now, url[r]))

\* Complete handing the outcome to the first entrant only
Complete_first(fp, out) ==
    /\ dedup' = [dedup EXCEPT ![fp] = [inflight |-> FALSE, waiting |-> << >>]]
    /\ result' = [result EXCEPT ![dedup[fp].waiting[1]] = out]
    /\ pc' = [pc EXCEPT ![dedup[fp].waiting[1]] =
                  IF out.kind = "record" THEN "DONE" ELSE "FAILED"]

\* Complete leaving the entry in the table when the operation failed
Complete_keep(fp, out) ==
    LET ws == {dedup[fp].waiting[i] : i \in 1..Len(dedup[fp].waiting)}
    IN  /\ dedup' = [dedup EXCEPT ![fp] = IF out.kind = "record"
                                          THEN [inflight |-> FALSE, waiting |-> << >>]
                                          ELSE @]
        /\ result' = [w \in Refs |-> IF w \in ws THEN out ELSE result[w]]
        /\ pc' = [w \in Refs |-> IF w \in ws
                                 THEN (IF out.kind = "record" THEN "DONE" ELSE "FAILED")
                                 ELSE pc[w]]

\* the operation of fingerprint fp ends with out: the entry leaves the table
\* and every reference attached to it gets out
Complete(fp, out) ==
    LET ws == {dedup[fp].waiting[i] : i \in 1..Len(dedup[fp].waiting)}
    IN  /\ dedup' = [dedup EXCEPT ![fp] = [inflight |-> FALSE, waiting |-> << >>]]
        /\ result' = [w \in Refs |-> IF w \in ws THEN out ELSE result[w]]
        /\ pc' = [w \in Refs |-> IF w \in ws
                                 THEN (IF out.kind = "record" THEN "DONE" ELSE "FAILED")
                                 ELSE pc[w]]

Terminal(s) == s \in {"SKIPPED", "DONE", "FAILED"}

\* every resource reference of item i has its outcome in the states p
ItemDone(p, i) == \A r \in Refs : ItemOf(r) = i => Terminal(p[r])

\* the aggregation handing the item on at every outcome of its references
item_completed_each ==
    nForward' = [i \in Items |->
                    IF \E r \in Refs : ItemOf(r) = i /\ Terminal(pc'[r]) /\ ~Terminal(pc[r])
                    THEN nForward[i] + 1 ELSE nForward[i]]

\* the aggregation of an item's references: the step that gives the last of
\* them its outcome hands the item on (forwards or drops it)
item_completed ==
    nForward' = [i \in Items |->
                    IF ItemDone(pc', i) /\ ~ItemDone(pc, i)
                    THEN nForward[i] + 1 ELSE nForward[i]]

\* CHECKING: media_to_download calls store.stat_image.  The filesystem store
\* answers at once; the S3 store sends a HEAD request and answers later.
Arrive(r) ==
    /\ pc[r] = "idle"
    /\ \/ /\ kind = "fs"
          /\ \E ioerr \in BOOLEAN :
                /\ Unusual(ioerr)
                /\ Decide(r, image_key(url[r]),
                          FSImagesStore_stat_image(store, image_key(url[r]), ioerr))
                /\ UNCHANGED sent
       \/ /\ kind = "s3"
          /\ pc' = [pc EXCEPT ![r] = "CHECKING"]
          /\ sent' = [sent EXCEPT ![r] = @ \cup {S3ImagesStore_download_request(
                          S3ImagesStore_set_custom_spider(cfg.IMAGES_S3STORE_SPIDER),
                          "HEAD", image_key(url[r]), ItemSpider)}]
          /\ UNCHANGED <<faults, dedup, result, statSeen, nFetch, owner, log>>
    /\ UNCHANGED <<cfg, kind, now, url, store, puts, resp, nProc, persisted,
                   pfailed, putFailed, sideVars>>
    /\ item_completed

\* the HEAD request of S3ImagesStore.stat_image is answered
StatAnswered(r) ==
    /\ pc[r] = "CHECKING"
    /\ \E a \in HeadAnswers(store, image_key(url[r])) :
          /\ Unusual(a.broken \/ a.hdrs # "ok" \/ a.status = 403)
          /\ Decide(r, image_key(url[r]), S3ImagesStore_stat_image(a))
    /\ UNCHANGED <<cfg, kind, now, url, store, puts, resp, nProc, persisted,
                   pfailed, putFailed, sent, sideVars>>
    /\ item_completed

GoodBody == Img(3, 3, "P", "ok", "new")

GoodResponse == [status |-> 200, body |-> GoodBody]

Responses == {[status |-> 200, body |-> b] : b \in Bodies} \cup {[status |-> 404, body |-> GoodBody]}

\* the faults a run of image_downloaded can meet in the filesystem store: none,
\* or the write of its at-th artifact breaks
Faults == {NoFault} \cup {[at |-> i, how |-> h] : i \in 1..3, h \in FsFaults}

\* what can come back for a download and happen while it is handled: any
\* response; in the filesystem store also a good response and a broken write
FetchInputs(k, n) ==
    {[response |-> x, fault |-> NoFault] : x \in Responses}
        \cup (IF k = "fs"
              THEN {[response |-> GoodResponse, fault |-> f] :
                        f \in {g \in Faults : g.at \in 1..n}}
              ELSE {})

\* the effect of media_downloaded's run d on the response in.response: what
\* it did to the store, and its result (or exception) as the operation's end
Handled(r, in, d) ==
    /\ store' = d.store
    /\ puts' = d.puts
    /\ resp' = [resp EXCEPT ![r] = [got |-> TRUE, status |-> in.response.status,
                                    body |-> in.response.body]]
    /\ nProc' = [nProc EXCEPT ![r] = @ + d.nproc]
    /\ persisted' = [persisted EXCEPT ![r] = d.persisted]
    /\ pfailed' = [pfailed EXCEPT ![r] = d.pfailed]
    /\ log' = [log EXCEPT ![r] = @ \o d.log]
    /\ sent' = [sent EXCEPT ![r] = @ \cup {S3ImagesStore_download_request(
                    S3ImagesStore_set_custom_spider(cfg.IMAGES_S3STORE_SPIDER),
                    "PUT", p.key, ItemSpider) : p \in d.puts \ puts}]
    /\ Unusual(in.response # GoodResponse \/ in.fault # NoFault)
    /\ Complete(request_fingerprint(url[r]), d.out)

\* the download of r's request is answered with a response: media_downloaded
FetchAnswered(r) ==
    /\ pc[r] = "FETCHING"
    /\ \E in \in FetchInputs(kind, 1 + Len(cfg.THUMBS)) :
          Handled(r, in, media_downloaded(in.response, url[r], cfg, kind,
                             [store |-> store, puts |-> puts], now, in.fault, r))
    /\ UNCHANGED <<cfg, kind, now, url, statSeen, nFetch, putFailed, owner, sideVars>>
    /\ item_completed

\* the download of r's request fails: media_failed
FetchFailed(r) ==
    /\ pc[r] = "FETCHING"
    /\ \E failure \in {"error", "IgnoreRequest"} :
          /\ log' = [log EXCEPT ![r] = @ \o media_failed_log(failure)]
          /\ Complete(request_fingerprint(url[r]), media_failed(failure))
    /\ Unusual(TRUE)
    /\ UNCHANGED <<cfg, kind, now, url, store, puts, statSeen, resp, nFetch, nProc,
                   persisted, pfailed, putFailed, owner, sent, sideVars>>
    /\ item_completed

\* a PUT of S3ImagesStore.persist_image is answered; nobody waits for it
PutAnswered(p) ==
    /\ p \in puts
    /\ puts' = puts \ {p}
    /\ \/ /\ store' = [store EXCEPT ![p.key] = Obj(p.body, now)]
          /\ UNCHANGED <<putFailed, faults>>
       \/ /\ putFailed' = [putFailed EXCEPT ![p.by] = TRUE]
          /\ Unusual(TRUE)
          /\ UNCHANGED store
    /\ UNCHANGED <<cfg, kind, now, url, pc, dedup, result, statSeen, resp, nFetch,
                   nProc, persisted, pfailed, owner, nForward, log, sent, sideVars>>

Next ==
    \/ \E r \in Refs : Arrive(r)
    \/ \E r \in Refs : StatAnswered(r)
    \/ \E r \in Refs : FetchAnswered(r)
    \/ \E r \in Refs : FetchFailed(r)
    \/ \E p \in puts : PutAnswered(p)

Spec == Init /\ [][Next]_vars

(***************************************************************************)
(* Fingerprint comparisons: two requests, and the digests fingerprint()    *)
(* and request_fingerprint() give for them under the same options.  Each   *)
(* request is fingerprinted once with these options, so that the digest is *)
(* computed, not taken from the request's cache.                           *)
(***************************************************************************)
\* the pipeline at rest, with nothing handed to it
PipelineQuiet ==
    /\ cfg = [MIN_WIDTH |-> 0, MIN_HEIGHT |-> 0, THUMBS |-> << >>,
              IMAGES_S3STORE_SPIDER |-> FALSE]
    /\ kind = "fs"
    /\ now = Now0
    /\ faults = 0
    /\ url = [r \in Refs |-> UrlSeq[1]]
    /\ pc = [r \in Refs |-> "idle"]
    /\ store = [k \in Keys |-> NoObj]
    /\ puts = {}
    /\ dedup = [f \in FPS |-> [inflight |-> FALSE, waiting |-> << >>]]
    /\ result = [r \in Refs |-> None]
    /\ statSeen = [r \in Refs |-> NoStat]
    /\ resp = [r \in Refs |-> NoResp]
    /\ nFetch = [r \in Refs |-> 0]
    /\ nProc = [r \in Refs |-> 0]
    /\ persisted = [r \in Refs |-> << >>]
    /\ pfailed = [r \in Refs |-> FALSE]
    /\ putFailed = [r \in Refs |-> FALSE]
    /\ owner = [r \in Refs |-> 0]
    /\ nForward = [i \in Items |-> 0]
    /\ log = [r \in Refs |-> << >>]
    /\ sent = [r \in Refs |-> {}]

FpInit ==
    /\ PipelineQuiet
    /\ CallsQuiet
    /\ DirsQuiet
    /\ fingerprinter = RequestFingerprinter_init(NoCrawler)
    /\ \E a, b \in Requests :
          fpc = [done |-> FALSE, a |-> a, b |-> b, include_headers |-> {},
                 keep_fragments |-> FALSE,
                 fa |-> << >>, fb |-> << >>, ra |-> << >>, rb |-> << >>]

\* both requests are fingerprinted, by fingerprint() and by
\* request_fingerprint(), with the options include_headers and keep_fragments
Compare(include_headers, keep_fragments) ==
    /\ ~fpc.done
    /\ fpc' = [fpc EXCEPT !.done = TRUE,
                          !.include_headers = include_headers,
                          !.keep_fragments = keep_fragments,
                          !.fa = fingerprint(fpc.a, include_headers, keep_fragments),
                          !.fb = fingerprint(fpc.b, include_headers, keep_fragments),
                          !.ra = request_fingerprint_hexdigest(fpc.a, include_headers,
                                                               keep_fragments),
                          !.rb = request_fingerprint_hexdigest(fpc.b, include_headers,
                                                               keep_fragments)]
    /\ UNCHANGED <<pipelineVars, callVars, dirVars, fingerprinter>>

FpNext == \E include_headers \in SUBSET IncludeNames, keep_fragments \in BOOLEAN :
              Compare(include_headers, keep_fragments)

FpSpec == FpInit /\ [][FpNext]_vars

(***************************************************************************)
(* Histories of calls of the fingerprint functions on two request objects, *)
(* with the caches.                                                        *)
(***************************************************************************)
CallInit ==
    /\ PipelineQuiet
    /\ CallsQuiet
    /\ DirsQuiet
    /\ fingerprinter = RequestFingerprinter_init(NoCrawler)
    /\ \E a, b \in CallRequests :
          fpc = [done |-> FALSE, a |-> a, b |-> b, include_headers |-> {},
                 keep_fragments |-> FALSE,
                 fa |-> << >>, fb |-> << >>, ra |-> << >>, rb |-> << >>]

\* the request that object o is
Content(o) == IF o = "a" THEN fpc.a ELSE fpc.b

\* fingerprint(o, include_headers, keep_fragments), or request_fingerprint
\* of the same: the cache looked up, filled on a miss, the digest returned
Call(fn, o, include_headers, keep_fragments) ==
    /\ Len(calls) < MaxCalls
    /\ cache' = [cache EXCEPT ![fn][o] =
                     Stored(@, CacheKey(include_headers, keep_fragments), fn, Content(o),
                            include_headers, keep_fragments)]
    /\ calls' = Append(calls,
                       [fn |-> fn, request |-> o, include_headers |-> include_headers,
                        keep_fragments |-> keep_fragments,
                        hit |-> Cached(cache[fn][o],
                                       CacheKey(include_headers, keep_fragments)) # {},
                        ret |-> Returned(cache[fn][o],
                                         CacheKey(include_headers, keep_fragments), fn,
                                         Content(o), include_headers, keep_fragments)])
    /\ UNCHANGED <<pipelineVars, fpc, dirVars, fingerprinter>>

CallNext ==
    \E fn \in Functions, o \in Objects, include_headers \in IncludeChoices,
       keep_fragments \in BOOLEAN :
        Call(fn, o, include_headers, keep_fragments)

CallSpec == CallInit /\ [][CallNext]_vars

(***************************************************************************)
(* Runs of spiders over one filesystem store.                              *)
(***************************************************************************)
\* the settings of the runs: one thumbnail
DirCfg == [MIN_WIDTH |-> 0, MIN_HEIGHT |-> 0, THUMBS |-> <<"small">>,
           IMAGES_S3STORE_SPIDER |-> FALSE]

DirInit ==
    /\ PipelineQuiet
    /\ CallsQuiet
    /\ DirsQuiet
    /\ fingerprinter = RequestFingerprinter_init(NoCrawler)
    /\ fpc = NoComparison

\* the spider named s is opened: a new run, with its info object
SpiderOpened(s) ==
    /\ ~spiders[s].open
    /\ spiders[s].run < MaxRuns
    /\ spiders' = [spiders EXCEPT ![s] = [open |-> TRUE, run |-> @.run + 1]]
    /\ UNCHANGED <<pipelineVars, fpc, callVars, created_directories, disk, fingerprinter>>

\* FSImagesStore.persist_image(key, image, buf, info) in a run of the spider
\* named s, for the i-th artifact of an image: the directory, then the file
PersistImage(s, i) ==
    /\ spiders[s].open
    /\ created_directories' =
          FSImagesStore_mkdir(created_directories, disk,
                              Dirname(get_images(GoodBody, UrlSeq[1], DirCfg)[i].key),
                              Info(s, spiders[s].run)).created_directories
    /\ disk' =
          FSImagesStore_mkdir(created_directories, disk,
                              Dirname(get_images(GoodBody, UrlSeq[1], DirCfg)[i].key),
                              Info(s, spiders[s].run)).disk
    /\ store' = FSImagesStore_persist_image(
                    store, get_images(GoodBody, UrlSeq[1], DirCfg)[i].key,
                    get_images(GoodBody, UrlSeq[1], DirCfg)[i].image, now, "").store
    /\ UNCHANGED <<cfg, kind, now, faults, url, pc, puts, dedup, result, statSeen, resp,
                   nFetch, nProc, persisted, pfailed, putFailed, owner, nForward, log,
                   sent, fpc, callVars, spiders, fingerprinter>>

\* the spider_closed signal for the spider named s
SpiderClosed(s) ==
    /\ spiders[s].open
    /\ spiders' = [spiders EXCEPT ![s].open = FALSE]
    /\ created_directories' =
          FSImagesStore_spider_closed(created_directories, s)
    /\ UNCHANGED <<pipelineVars, fpc, callVars, disk, fingerprinter>>

DirNext ==
    \/ \E s \in Spiders : SpiderOpened(s)
    \/ \E s \in Spiders, i \in 1..2 : PersistImage(s, i)
    \/ \E s \in Spiders : SpiderClosed(s)

DirSpec == DirInit /\ [][DirNext]_vars

(***************************************************************************)
(* A RequestFingerprinter fingerprinting two requests.                     *)
(***************************************************************************)
FingerprinterInit ==
    /\ PipelineQuiet
    /\ CallsQuiet
    /\ DirsQuiet
    /\ \E crawler \in {NoCrawler, "2.6", "2.7"} :
          fingerprinter = RequestFingerprinter_init(crawler)
    /\ \E a, b \in FingerprinterRequests :
          fpc = [done |-> FALSE, a |-> a, b |-> b, include_headers |-> {},
                 keep_fragments |-> FALSE,
                 fa |-> << >>, fb |-> << >>, ra |-> << >>, rb |-> << >>]

\* fingerprinter.fingerprint(o): the digest, and the entry of the cache of
\* the function behind it
Fingerprint(o) ==
    /\ (IF o = "a" THEN fpc.fa ELSE fpc.fb) = << >>
    /\ fpc' = [fpc EXCEPT
                  !.fa = IF o = "a"
                         THEN RequestFingerprinter_fingerprint(
                                  fingerprinter,
                                  cache[FingerprintFunction(fingerprinter)][o], fpc.a)
                         ELSE @,
                  !.fb = IF o = "b"
                         THEN RequestFingerprinter_fingerprint(
                                  fingerprinter,
                                  cache[FingerprintFunction(fingerprinter)][o], fpc.b)
                         ELSE @,
                  !.done = (IF o = "a" THEN fpc.fb ELSE fpc.fa) # << >>]
    /\ cache' = [cache EXCEPT ![FingerprintFunction(fingerprinter)][o] =
                     Stored(@, CacheKey({}, FALSE), FingerprintFunction(fingerprinter),
                            Content(o), {}, FALSE)]
    /\ UNCHANGED <<pipelineVars, calls, dirVars, fingerprinter>>

FingerprinterNext == \E o \in Objects : Fingerprint(o)

FingerprinterSpec == FingerprinterInit /\ [][FingerprinterNext]_vars

(***************************************************************************)
(* Properties.                                                             *)
(***************************************************************************)
\* the keys of one persist sequence of url u: the full image, then the
\* thumbnails in the order of THUMBS
ExpectedKeys(u) ==
    <<image_key(u)>> \o [i \in 1..Len(cfg.THUMBS) |-> thumb_key(u, cfg.THUMBS[i])]

NoRepeat(seq) == \A i, j \in 1..Len(seq) : seq[i] = seq[j] => i = j

Attached(r) == owner[r] # 0

Waiter(r) == Attached(r) /\ owner[r] # r

Ended(r) == pc[r] \in {"DONE", "FAILED"}

\* C1: of the references attached to one operation (same request identity,
\* entered FETCHING while it was in flight) exactly one, the first, issues a
\* download, and only it runs a persist sequence, the full image and each
\* thumbnail once; every other issues no download, no processing and no
\* store.persist_image call.
C1_OneFetchOnePersist ==
    \A r \in Refs :
        /\ nFetch[r] = (IF owner[r] = r THEN 1 ELSE 0)
        /\ Attached(r) =>
              /\ owner[owner[r]] = owner[r]
              /\ request_fingerprint(url[owner[r]]) = request_fingerprint(url[r])
        /\ owner[r] # r => persisted[r] = << >> /\ nProc[r] = 0
        /\ NoRepeat(persisted[r])
        /\ (owner[r] = r /\ pc[r] = "DONE") => persisted[r] = ExpectedKeys(url[r])

\* C1 witness: a waiter and its first entrant are both done, and the first
\* entrant persisted the full image and a thumbnail
C1_Witness ==
    \E r \in Refs :
        /\ Waiter(r) /\ pc[r] = "DONE" /\ pc[owner[r]] = "DONE"
        /\ Len(persisted[owner[r]]) >= 2

\* C2: once the operation a reference is attached to has ended, the
\* reference has ended the same way with the same outcome (the same record,
\* or the same failure) as the first entrant; a reference still waiting has
\* a first entrant still fetching.
C2_WaitersShareOutcome ==
    \A r \in Refs :
        Attached(r) =>
            /\ Ended(owner[r]) => pc[r] = pc[owner[r]] /\ result[r] = result[owner[r]]
            /\ pc[r] = "WAITING" => pc[owner[r]] = "FETCHING"
            /\ pc[r] = "DONE" => result[r].kind = "record"
            /\ pc[r] = "FAILED" => result[r].kind = "failure"

\* C2 witness: a waiter holds the record its first entrant produced
C2_Witness ==
    \E r \in Refs : Waiter(r) /\ pc[r] = "DONE" /\ result[r].kind = "record"
                        /\ result[r] = result[owner[r]]

\* C3: a fingerprint is in the table exactly while a download for it is
\* outstanding: at most one reference per fingerprint is fetching, the
\* entry lists exactly the references fetching or waiting on it, and no
\* reference that is done or failed is still listed.
C3_EntryOnlyWhileRunning ==
    \A f \in FPS :
        LET listed == {dedup[f].waiting[i] : i \in 1..Len(dedup[f].waiting)}
            running == {r \in Refs : pc[r] = "FETCHING" /\ request_fingerprint(url[r]) = f}
            pending == {r \in Refs : pc[r] \in {"FETCHING", "WAITING"}
                                        /\ request_fingerprint(url[r]) = f}
        IN  /\ Cardinality(running) <= 1
            /\ dedup[f].inflight <=> running # {}
            /\ listed = pending
            /\ ~dedup[f].inflight => listed = {}

\* C3 witness: an operation with a waiter has failed and its entry is gone
C3_Witness ==
    \E r \in Refs : Waiter(r) /\ pc[r] = "FAILED"
                        /\ ~dedup[request_fingerprint(url[r])].inflight

\* the stat that media_to_download saw for r named an object no older than
\* the expiry window
FreshStat(r) ==
    /\ statSeen[r].seen
    /\ ~statSeen[r].stat.fail /\ statSeen[r].stat.some
    /\ statSeen[r].stat.last_modified # 0
    /\ statSeen[r].at - statSeen[r].stat.last_modified <= EXPIRES * DAY

\* C4: when stat returns a last-modified no older than the expiry window,
\* media_to_download returns the record with the stat's checksum, the
\* reference issues no download and no store.persist_image call, then or
\* later, and the step leaves the store and the PUTs in flight as they were.
C4_FreshShortCircuits ==
    [][\A r \in Refs :
          FreshStat(r)' =>
              /\ pc'[r] = "SKIPPED"
              /\ result'[r] = Record(url[r], image_key(url[r]), statSeen'[r].stat.checksum)
              /\ nFetch'[r] = 0 /\ owner'[r] = 0
              /\ nProc'[r] = 0 /\ persisted'[r] = << >>
              /\ ~statSeen[r].seen => store' = store /\ puts' = puts]_vars

\* C4 witness: a reference was skipped on a fresh stat, with the checksum of
\* the object in the store
C4_Witness ==
    \E r \in Refs :
        /\ FreshStat(r) /\ pc[r] = "SKIPPED"
        /\ result[r].checksum = md5sum(store[image_key(url[r])].bytes)

StatAge(r) == statSeen[r].at - statSeen[r].stat.last_modified

StatFound(r) == statSeen[r].seen /\ ~statSeen[r].stat.fail /\ statSeen[r].stat.some

\* C5: an object exactly EXPIRES days old is fresh (the reference is
\* skipped, no download), one EXPIRES + 1 days old is stale (the reference
\* goes on to FETCHING), and no object is stale unless its age exceeds
\* EXPIRES days.
C5_FreshnessBoundary ==
    \A r \in Refs :
        StatFound(r) =>
            /\ StatAge(r) = EXPIRES * DAY => pc[r] = "SKIPPED" /\ ~Attached(r)
            /\ StatAge(r) = (EXPIRES + 1) * DAY => pc[r] # "SKIPPED" /\ Attached(r)
            /\ Attached(r) => StatAge(r) > EXPIRES * DAY

\* C5 witness: one reference skipped at exactly EXPIRES days
C5_Witness ==
    \E r \in Refs : StatFound(r) /\ StatAge(r) = EXPIRES * DAY /\ pc[r] = "SKIPPED"

\* C6 as claimed: the age counts in whole days, fractions dropped, so an
\* object EXPIRES days and a fraction of a day old is still fresh.
C6_Claimed ==
    \A r \in Refs :
        (StatFound(r) /\ StatAge(r) \div DAY <= EXPIRES) => pc[r] = "SKIPPED"

\* C6 as amended: the age is compared as it is, in days and fractions of a
\* day: an object EXPIRES days and a fraction of a day old (one second is
\* enough) is stale and the download is forced.
C6_FractionIsStale ==
    \A r \in Refs :
        (StatFound(r) /\ StatAge(r) > EXPIRES * DAY /\ StatAge(r) < (EXPIRES + 1) * DAY)
            => pc[r] # "SKIPPED" /\ Attached(r)

\* C6 witness: an object EXPIRES days and one second old forced a download
C6_Witness ==
    \E r \in Refs : StatFound(r) /\ StatAge(r) = EXPIRES * DAY + 1 /\ Attached(r)

\* the stat that media_to_download saw for r was empty, lacked a
\* last-modified, or failed
NoStatResult(r) ==
    /\ statSeen[r].seen
    /\ statSeen[r].stat.fail \/ ~statSeen[r].stat.some \/ statSeen[r].stat.last_modified = 0

\* C7: a stat that finds nothing (no file, a non-200 answer to the HEAD) or
\* that fails never fails the reference: the step that sees it leaves the
\* reference without result and in FETCHING, as first entrant or waiter.
C7_StatFailureForcesFetch ==
    [][\A r \in Refs :
          (~statSeen[r].seen /\ NoStatResult(r)') =>
              /\ pc'[r] \in {"FETCHING", "WAITING"}
              /\ result'[r] = None
              /\ Attached(r)']_vars

\* C7 witness: a stat failed and the reference is fetching
C7_Witness ==
    \E r \in Refs : statSeen[r].seen /\ statSeen[r].stat.fail /\ pc[r] = "FETCHING"

\* C8: a response whose status is not 200 or whose body is empty fails the
\* reference with a download error before any processing: get_images is not
\* run and store.persist_image is not called.
C8_BadResponseFailsEarly ==
    \A r \in Refs :
        (resp[r].got /\ (resp[r].status # 200 \/ resp[r].body.kind = "empty")) =>
            /\ pc[r] = "FAILED"
            /\ result[r].kind = "failure"
            /\ result[r].why \in {"http-error", "empty-content"}
            /\ nProc[r] = 0
            /\ persisted[r] = << >>

\* C8 witness: a 200 response with an empty body failed the reference
C8_Witness ==
    \E r \in Refs : /\ resp[r].got /\ resp[r].status = 200 /\ resp[r].body.kind = "empty"
                    /\ pc[r] = "FAILED"

\* C9: an image narrower than MIN_WIDTH or shorter than MIN_HEIGHT fails the
\* reference with the too-small error and nothing of it reaches
\* store.persist_image, neither the full image nor a thumbnail.
C9_TooSmallPersistsNothing ==
    \A r \in Refs :
        (/\ resp[r].got /\ resp[r].status = 200 /\ resp[r].body.kind = "img"
         /\ (resp[r].body.w < cfg.MIN_WIDTH \/ resp[r].body.h < cfg.MIN_HEIGHT)) =>
            /\ pc[r] = "FAILED"
            /\ result[r].kind = "failure" /\ result[r].why = "too-small"
            /\ persisted[r] = << >>
            /\ \A p \in puts : p.by # r

\* C9 witness: an image wide enough but too short failed the reference
C9_Witness ==
    \E r \in Refs : /\ resp[r].got /\ resp[r].body.kind = "img"
                    /\ resp[r].body.w >= cfg.MIN_WIDTH /\ resp[r].body.h < cfg.MIN_HEIGHT
                    /\ pc[r] = "FAILED"

PersistFailed(r) == pfailed[r] \/ putFailed[r]

\* the failure of a persist reached image_downloaded
Observed(r) == pfailed[r]

\* C11 as claimed: in both stores a persist that did not complete is
\* delivered to image_downloaded, which observes it.
C11_Claimed ==
    \A r \in Refs : PersistFailed(r) => Observed(r)

\* C12 as claimed: a reference is DONE only when no persist issued for its
\* resource is still outstanding.
C12_Claimed ==
    \A r \in Refs : pc[r] = "DONE" => \A p \in puts : p.by # owner[r]

\* C13 as claimed: the record of a fetched resource carries a status, new
\* when the stat found no object and expired-refetched when it found a stale
\* one.
C13_Claimed ==
    \A r \in Refs :
        (pc[r] = "DONE" /\ owner[r] = r) =>
            /\ "status" \in DOMAIN result[r]
            /\ result[r].status = (IF StatFound(r) THEN "expired-refetched" ELSE "new")

\* C13 as amended: the record of a fetched resource has a url, a path and a
\* checksum and nothing else, and it is the same record, up to url and path,
\* for the same response whether the stat found no object or a stale one.
C13_RecordWithoutStatus ==
    \A r \in Refs :
        pc[r] = "DONE" =>
            /\ result[r] = [kind |-> "record", url |-> url[r], path |-> image_key(url[r]),
                            checksum |-> result[r].checksum, why |-> ""]
            /\ \A q \in Refs :
                  (pc[q] = "DONE" /\ resp[owner[q]].body = resp[owner[r]].body) =>
                      result[q].checksum = result[r].checksum

\* C13 witness: a resource whose stat found nothing and one whose stat found
\* a stale object were both fetched with the same response, and are done
C13_Witness ==
    \E r, q \in Refs :
        /\ pc[r] = "DONE" /\ pc[q] = "DONE" /\ owner[r] = r /\ owner[q] = q
        /\ statSeen[r].seen /\ ~StatFound(r)
        /\ StatFound(q) /\ StatAge(q) > EXPIRES * DAY
        /\ resp[r].body = resp[q].body

MineOf(q, p, res, own, st, pts, tbl) ==
    [pc |-> p[q], result |-> res[q], owner |-> own[q],
     objects |-> [k \in {j \in Keys : j.guid = Sha1Hex(url[q])} |-> st[k]],
     puts |-> {x \in pts : x.by = q},
     entry |-> tbl[request_fingerprint(url[q])]]

\* C15: the step in which a reference fails (download error, decode,
\* too-small or encode error, persist error) leaves every reference to
\* another resource as it was: its state, its outcome, the objects under its
\* keys, its PUTs in flight and its entry in the table of requests in flight.
C15_FailureIsLocal ==
    [][\A r \in Refs :
          (pc'[r] = "FAILED" /\ pc[r] # "FAILED") =>
              \A q \in Refs :
                  url[q] # url[r] =>
                      MineOf(q, pc', result', owner', store', puts', dedup')
                          = MineOf(q, pc, result, owner, store, puts, dedup)]_vars

\* C15 witness: a reference has failed while a reference to another resource
\* is fetching
C15_Witness ==
    \E r, q \in Refs : url[q] # url[r] /\ pc[r] = "FAILED" /\ pc[q] = "FETCHING"

\* the answer of S3 to a HEAD for an object it holds
HeadOk(st, key) == CHOOSE a \in HeadAnswers(st, key) : a.status = 200 /\ a.hdrs = "ok"

\* C16: when the persist of a full image completes (persist_image returns in
\* the filesystem store, the PUT is answered in the S3 store), a stat of its
\* key gives the checksum of the record made of that image.
C16_PersistThenStat ==
    [][/\ \A r \in Refs :
             (kind = "fs" /\ pc[r] = "FETCHING" /\ pc'[r] = "DONE") =>
                 /\ FSImagesStore_stat_image(store', image_key(url[r]), FALSE).some
                 /\ FSImagesStore_stat_image(store', image_key(url[r]), FALSE).checksum
                        = result'[r].checksum
       /\ \A p \in puts \ puts' :
             (faults' = faults /\ p.key.role = "full" /\ result[p.by].kind = "record") =>
                 S3ImagesStore_stat_image(HeadOk(store', p.key)).checksum
                     = result[p.by].checksum]_vars

\* C16 witness: a reference is done, all its persists have completed, and
\* the store holds its full image and its thumbnails
C16_Witness ==
    \E r \in Refs :
        /\ pc[r] = "DONE" /\ owner[r] = r /\ ~putFailed[r]
        /\ Len(persisted[r]) >= 2
        /\ \A p \in puts : p.by # r
        /\ \A i \in 1..Len(persisted[r]) : store[persisted[r][i]].mtime = now

\* the stat that media_to_download saw for r named an object older than the
\* expiry window
StaleStat(r) ==
    StatFound(r) /\ statSeen[r].stat.last_modified # 0 /\ StatAge(r) > EXPIRES * DAY

\* C17 as claimed: once an object was found stale it stays in the store
\* until a persist for its key succeeds: the key never holds anything but
\* the old object or a completely written new one, and it holds the old
\* object, unchanged, as long as no persist was attempted.
C17_Claimed ==
    \A r \in Refs :
        StaleStat(r) =>
            /\ store[statSeen[r].key].present
            /\ store[statSeen[r].key].bytes # PartialBytes
            /\ (\A q \in Refs : url[q] = url[r] => persisted[q] = << >>) =>
                  /\ md5sum(store[statSeen[r].key].bytes) = statSeen[r].stat.checksum
                  /\ store[statSeen[r].key].mtime = statSeen[r].stat.last_modified

\* C19: in the workflow of a reference the key of the stat, the key of the
\* first persist_image call (the full image), the key of the PUT of the full
\* image and the path of the record are one key, image_key of the url.
C19_OneKeyPerWorkflow ==
    \A r \in Refs :
        /\ statSeen[r].seen => statSeen[r].key = image_key(url[r])
        /\ persisted[r] # << >> => persisted[r][1] = statSeen[r].key
        /\ result[r].kind = "record" => result[r].path = statSeen[r].key
        /\ \A p \in puts : (p.by = r /\ p.key.role = "full") => p.key = statSeen[r].key

\* C19 witness: a reference was checked, fetched and persisted, and is done
C19_Witness ==
    \E r \in Refs :
        /\ pc[r] = "DONE" /\ owner[r] = r /\ statSeen[r].seen
        /\ Len(persisted[r]) >= 2
        /\ result[r].path = persisted[r][1]

\* C20: the checksum of the record of a fetched resource is the md5 of the
\* encoded bytes of the full image, whatever the number of thumbnails.
C20_ChecksumOfFullImage ==
    \A r \in Refs :
        pc[r] = "DONE" =>
            result[r].checksum = md5sum(convert_image(resp[owner[r]].body, NoSize).buf)

\* C20 witness: a reference is done with two thumbnails persisted, the last
\* of them with other bytes than the full image
C20_Witness ==
    \E r \in Refs :
        /\ pc[r] = "DONE" /\ Len(persisted[r]) = 3
        /\ md5sum(store[persisted[r][3]].bytes) # result[r].checksum

\* the two requests have the same method, the same body and the same url up
\* to the fragment and the order of the query parameters
SameButFragmentAndOrder ==
    /\ fpc.a.method = fpc.b.method
    /\ fpc.a.body = fpc.b.body
    /\ fpc.a.url.base = fpc.b.url.base
    /\ SortedBy(ParamOrder, fpc.a.url.query) = SortedBy(ParamOrder, fpc.b.url.query)

\* include_headers names a header that both requests carry, with different
\* values
NamesDifferingHeader ==
    \E h \in fpc.include_headers :
        /\ fpc.a.headers[Lower(h)] # << >> /\ fpc.b.headers[Lower(h)] # << >>
        /\ fpc.a.headers[Lower(h)] # fpc.b.headers[Lower(h)]

\* C18 as claimed, for fingerprint() and for request_fingerprint(): requests
\* alike up to fragment, order of the query parameters and headers have
\* equal fingerprints under the default options; with keep_fragments those
\* of them that differ in the fragment have different fingerprints; with
\* include_headers naming a header they carry with different values they
\* have different fingerprints.
C18_Claimed ==
    (fpc.done /\ SameButFragmentAndOrder) =>
        /\ (fpc.include_headers = {} /\ ~fpc.keep_fragments) =>
              fpc.fa = fpc.fb /\ fpc.ra = fpc.rb
        /\ (fpc.keep_fragments /\ fpc.a.url.frag # fpc.b.url.frag) =>
              fpc.fa # fpc.fb /\ fpc.ra # fpc.rb
        /\ NamesDifferingHeader =>
              fpc.fa # fpc.fb /\ fpc.ra # fpc.rb

\* the keys the pipeline worked with for reference r: the key of its stat, the
\* keys handed to persist_image, the keys of its HEAD and PUT requests and
\* the path of its record
UsedKeys(r) ==
    (IF statSeen[r].seen THEN {statSeen[r].key} ELSE {})
        \cup {persisted[r][i] : i \in 1..Len(persisted[r])}
        \cup {x.key : x \in sent[r]}
        \cup (IF result[r].kind = "record" THEN {result[r].path} ELSE {})

\* key has the layout of a key of url u: full/<digest>.jpg, or
\* thumbs/<thumb_id>/<digest>.jpg for a thumb_id of THUMBS, with the digest of
\* u, of digits hexadecimal characters
KeyLayout(key, u, digits) ==
    /\ key.guid = Sha1Hex(u)
    /\ HexLength(key.guid) = digits
    /\ \/ KeyPath(key) = <<"full", [stem |-> key.guid, ext |-> "jpg"]>>
       \/ \E i \in 1..Len(cfg.THUMBS) :
             KeyPath(key) = <<"thumbs", cfg.THUMBS[i], [stem |-> key.guid, ext |-> "jpg"]>>

\* the first key handed to persist_image is the full image's, every later one
\* a thumbnail's
PersistRoles(r) ==
    \A i \in 1..Len(persisted[r]) :
        KeyPath(persisted[r][i])[1] = (IF i = 1 THEN "full" ELSE "thumbs")

\* C21 as claimed: every key the pipeline derives is full/<digest>.jpg for the
\* full image and thumbs/<thumb_id>/<digest>.jpg for a thumbnail, the digest
\* being 64 hexadecimal characters derived from the url.
C21_Claimed ==
    \A r \in Refs :
        /\ PersistRoles(r)
        /\ \A key \in UsedKeys(r) : KeyLayout(key, url[r], 64)

\* C21 as amended: every key the pipeline derives is full/<digest>.jpg for the
\* full image and thumbs/<thumb_id>/<digest>.jpg for a thumbnail, the digest
\* being the 40 hexadecimal characters of the sha1 of the url.
C21_KeyLayout ==
    \A r \in Refs :
        /\ PersistRoles(r)
        /\ \A key \in UsedKeys(r) : KeyLayout(key, url[r], 40)

\* C21 witness: a reference persisted its full image and a thumbnail and has
\* its record
C21_Witness ==
    \E r \in Refs : /\ pc[r] = "DONE" /\ Len(persisted[r]) >= 2
                    /\ KeyPath(persisted[r][2])[1] = "thumbs"

\* C22: media_downloaded ends in one of two ways, whatever the response and
\* whatever is raised while the image is decoded, converted or persisted: with
\* the record {url, path, checksum} of the reference (DONE), or with
\* ImageException (FAILED); media_failed always ends with ImageException.
C22_RecordOrImageException ==
    \A r \in Refs :
        /\ resp[r].got =>
              \/ /\ pc[r] = "DONE"
                 /\ result[r] = Record(url[r], image_key(url[r]), result[r].checksum)
              \/ /\ pc[r] = "FAILED"
                 /\ result[r] = ImageException(result[r].why)
        /\ (Ended(r) /\ owner[r] = r /\ ~resp[r].got) =>
              /\ pc[r] = "FAILED"
              /\ result[r] = ImageException(result[r].why)

\* C22 witness: an exception of another class than ImageException (from
\* Image.open or from the store) was raised under media_downloaded and the
\* reference failed with ImageException
C22_Witness ==
    \E r \in Refs : /\ resp[r].got /\ pc[r] = "FAILED"
                    /\ result[r].why \in {"decode-error", "persist-error"}

\* the handlers of r's request wrote a line about a failure
FailureLogged(r) == \E i \in 1..Len(log[r]) : log[r][i].level \in {"WARNING", "ERROR"}

\* C26 as claimed: every failure of a resource, in media_downloaded or in
\* media_failed, an ignored request included, leaves at least one log line.
C26_Claimed ==
    \A r \in Refs : (pc[r] = "FAILED" /\ owner[r] = r) => log[r] # << >>

\* C26 as amended: every failure of a resource in media_downloaded, and every
\* failure in media_failed but that of an ignored request, leaves a log line
\* of level WARNING or ERROR; the failure of an ignored request leaves no log
\* line.
C26_FailureLoggedUnlessIgnored ==
    \A r \in Refs :
        (pc[r] = "FAILED" /\ owner[r] = r) =>
            IF result[r].why = "ignored" THEN log[r] = << >> ELSE FailureLogged(r)

\* C26 witness: an exception of another class than ImageException failed a
\* reference and log.err wrote it
C26_Witness ==
    \E r \in Refs : /\ pc[r] = "FAILED" /\ owner[r] = r /\ resp[r].got
                    /\ \E i \in 1..Len(log[r]) : log[r][i].level = "ERROR"

\* C27: with IMAGES_S3STORE_SPIDER set, every request of the S3 store, the
\* HEAD of stat_image and the PUT of persist_image, is scheduled on the
\* store's own spider; without it every such request is downloaded for the
\* spider of the item.
C27_StoreRequestsLane ==
    \A r \in Refs : \A x \in sent[r] :
        IF cfg.IMAGES_S3STORE_SPIDER
        THEN x.how = "schedule" /\ x.spider = "s3.amazonaws.com"
        ELSE x.how = "download" /\ x.spider = ItemSpider

\* C27 witness: with the setting on, a reference sent its HEAD and a PUT
C27_Witness ==
    /\ cfg.IMAGES_S3STORE_SPIDER
    /\ \E r \in Refs : {x.method : x \in sent[r]} = {"HEAD", "PUT"}

\* the keys of the resource of reference r: of its full image and thumbnails
KeysOf(r) == {k \in Keys : k.guid = Sha1Hex(url[r])}

\* C28 as claimed: the step in which media_downloaded fails a reference
\* leaves every object under the keys of its resource as it was, and issues
\* no PUT for it.
C28_Claimed ==
    [][\A r \in Refs :
          (pc[r] = "FETCHING" /\ pc'[r] = "FAILED" /\ resp'[r].got) =>
              /\ \A k \in KeysOf(r) : store'[k] = store[k]
              /\ {p \in puts' : p.by = r} = {p \in puts : p.by = r}]_vars

\* C29 as claimed: whenever a reference was skipped as up to date, the store
\* holds the full image and every thumbnail of THUMBS of its resource.
C29_Claimed ==
    \A r \in Refs :
        pc[r] = "SKIPPED" =>
            \A i \in 1..Len(ExpectedKeys(url[r])) : store[ExpectedKeys(url[r])[i]].present

\* the headers that include_headers names and the request carries
CarriedNames(request, include_headers) ==
    {n \in {Lower(h) : h \in include_headers} : request.headers[n] # << >>}

\* C23 as claimed, for fingerprint() and for request_fingerprint(): two calls
\* on one request with the same keep_fragments, whose include_headers name the
\* same headers up to order, letter case and headers the request does not
\* carry, return the same digest.
C23_Claimed ==
    \A i, j \in 1..Len(calls) :
        (/\ calls[i].fn = calls[j].fn
         /\ calls[i].request = calls[j].request
         /\ calls[i].keep_fragments = calls[j].keep_fragments
         /\ CarriedNames(Content(calls[i].request), calls[i].include_headers)
                = CarriedNames(Content(calls[j].request), calls[j].include_headers)) =>
            calls[i].ret = calls[j].ret

\* C24: whatever calls came before, on whatever requests with whatever
\* options, a call returns the digest that the computation without cache gives
\* for its request, its include_headers and its keep_fragments.
C24_CacheReturnsOwnDigest ==
    \A i \in 1..Len(calls) :
        calls[i].ret = Computed(calls[i].fn, Content(calls[i].request),
                                calls[i].include_headers, calls[i].keep_fragments)

\* C24 witness: a call was answered from the cache, filled by a call that
\* wrote include_headers in another way
C24_Witness ==
    \E i, j \in 1..Len(calls) :
        /\ j < i /\ calls[i].hit
        /\ calls[j].fn = calls[i].fn /\ calls[j].request = calls[i].request
        /\ calls[j].include_headers # calls[i].include_headers

\* C25 as claimed: once a spider is closed, created_directories has no entry
\* that the persist_image calls of its runs made.
C25_Claimed ==
    \A s \in Spiders :
        ~spiders[s].open =>
            \A n \in 1..spiders[s].run : Info(s, n) \notin DOMAIN created_directories

\* C30 as claimed: two requests with equal fingerprints (default options)
\* have the same image_key.
C30_Claimed ==
    (fpc.done /\ fpc.include_headers = {} /\ ~fpc.keep_fragments /\ fpc.fa = fpc.fb) =>
        image_key(UrlText(fpc.a.url)) = image_key(UrlText(fpc.b.url))

\* C30 as amended: two requests whose urls are the same text have the same
\* image_key; two requests with equal fingerprints whose urls differ, in the
\* fragment or in the order of the query parameters, have different
\* image_keys.
C30_KeyOfUrlText ==
    fpc.done =>
        (image_key(UrlText(fpc.a.url)) = image_key(UrlText(fpc.b.url))
            <=> fpc.a.url = fpc.b.url)

\* C30 witness: two requests with equal fingerprints whose urls differ only
\* in the order of the query parameters
C30_Witness ==
    /\ fpc.done /\ fpc.include_headers = {} /\ ~fpc.keep_fragments
    /\ fpc.fa = fpc.fb /\ fpc.ra = fpc.rb
    /\ fpc.a.url.query # fpc.b.url.query /\ fpc.a.url.frag = fpc.b.url.frag

\* the two requests have one method and differ in the canonical url or in the
\* body
SameMethodOtherUrlOrBody ==
    /\ fpc.a.method = fpc.b.method
    /\ <<canonicalize_url(fpc.a.url, FALSE), fpc.a.body>>
           # <<canonicalize_url(fpc.b.url, FALSE), fpc.b.body>>

\* C31 as claimed: a RequestFingerprinter, of implementation 2.6 (the
\* default) as of implementation 2.7, gives different fingerprints to two
\* requests of one method that differ in the canonical url or in the body.
C31_Claimed ==
    (fpc.done /\ SameMethodOtherUrlOrBody) => fpc.fa # fpc.fb

====
